---- MODULE Spec2Model ----
(***************************************************************************)
(* The gesture recognizer of src/src/gestuelle.ts (class Gestuelle, the    *)
(* iteration with tap, press, pan, swipe and two-pointer pinch, lines      *)
(* 1-468) as a state machine.  One action per DOM event handler, one for   *)
(* the press timer callback, one for destroy(), one for the passing of     *)
(* time.                                                                   *)
(*                                                                         *)
(* Numbers.  Coordinates, timestamps and durations are integers.  The code *)
(* compares Math.sqrt(dx**2 + dy**2) with a non-negative threshold t; the  *)
(* model compares dx*dx + dy*dy with t*t, which decides the same way, and  *)
(* a notification's `distance` is carried squared, in the field distance2. *)
(* Quotients (velocities, the centre of a pinch) are carried unevaluated,  *)
(* as [num, den]; a zero den is the code's division by zero.               *)
(***************************************************************************)
EXTENDS Integers, Sequences, FiniteSets, TLC

VARIABLES
    config,          \* this.config: the option groups handed to createGestuelle
    state,           \* this.state: GestureState
    activePointers,  \* this.activePointers: Map<number, ActivePointer>, in insertion order
    captured,        \* pointer ids captured to this.element (set/releasePointerCapture)
    pressTimeoutId,  \* this.pressTimeoutId: number | null
    timers,          \* window's pending setTimeout entries for onPressTimeout
    listening,       \* whether the four pointer listeners are registered on the element
    now,             \* performance.now(), counted from the latest moment no reading mattered
    last,            \* gesture events dispatched by the latest step, in order
    count,           \* per event name, how many were dispatched in the current span (capped)
    hist             \* what the input of the current span has done so far

vars == <<config, state, activePointers, captured, pressTimeoutId, timers,
          listening, now, last, count, hist>>

----------------------------------------------------------------------------
(* Bounds of the model *)

\* the clock stops advancing here
MaxTime == 700
\* the per-span counters saturate here
CountCap == 1
\* the calls of destroy() are counted up to DestroyCap
DestroyCap == 2

\* pointer ids the event source hands out
PointerIds == {1, 2, 3}
\* how far one step of the clock advances
TickSteps == {50, 250}
\* where a pointer goes down (the place of the tests)
StartPoints == {<<10, 10>>}
\* where a pointer moves to while it is the only one tracked: at 3, 7, 10, 12, 20,
\* 30 and 120 to the right of the start, and at 30 to the left, below, above and
\* on the diagonal
MovePoints == {<<13, 10>>, <<17, 10>>, <<10, 20>>, <<22, 10>>, <<10, 30>>, <<40, 10>>,
               <<-20, 10>>, <<10, 40>>, <<10, -20>>, <<40, 40>>, <<130, 10>>}
\* where a pointer moves to while two are tracked: nearer to the start than
\* pinch.threshold, and farther
PinchPoints == {<<13, 10>>, <<17, 10>>}
\* where a pointer moves to while more are tracked
CrowdPoints == {<<13, 10>>}
\* the configurations: createGestuelle(element), whose config is {}, and the
\* one of the press tests, test/tap.spec.ts, with pan.threshold above press.maxDistance
Configs == {<<>>, [pan |-> [threshold |-> 15]]}

----------------------------------------------------------------------------
(* Program constants: the defaults of the options *)

Null == 0
PressMinDuration == 500
PressMaxDistance == 10
PanThresholdDefault == 5
PinchThreshold == 5
TapMaxDuration == 250
TapMaxDistance == 10
SwipeMinVelocityNum == 3
SwipeMinVelocityDen == 10
SwipeMinDistance == 30
SwipeMaxDuration == 300

GestureState == {"IDLE", "POSSIBLE_TAP", "PRESSING", "PANNING", "SWIPING",
                 "POSSIBLE_MULTI_TOUCH", "PINCHING", "CANCELED"}

EventNames == {"panstart", "panmove", "panend", "pancancel", "tap",
               "pressstart", "pressend", "presscancel", "swipe",
               "pinchstart", "pinchmove", "pinchend"}

----------------------------------------------------------------------------
(* The Map activePointers: a sequence of ActivePointer records without     *)
(* repeated id, in insertion order (the order of Map.values()).            *)

Has(m, id) == \E i \in 1..Len(m) : m[i].id = id

Get(m, id) == m[CHOOSE i \in 1..Len(m) : m[i].id = id]

MapSet(m, rec) ==
    IF Has(m, rec.id)
    THEN [i \in 1..Len(m) |-> IF m[i].id = rec.id THEN rec ELSE m[i]]
    ELSE Append(m, rec)

MapDelete(m, id) == SelectSeq(m, LAMBDA r : r.id # id)

Ids(m) == {m[i].id : i \in 1..Len(m)}

ActivePointer(id, x, y, t) ==
    [id |-> id, startX |-> x, startY |-> y, currentX |-> x, currentY |-> y,
     pointerType |-> "touch", downTime |-> t]

Sq(a) == a * a

Abs(a) == IF a < 0 THEN -a ELSE a

\* Math.sqrt(dx ** 2 + dy ** 2), squared
Dist2(ax, ay, bx, by) == Sq(ax - bx) + Sq(ay - by)

----------------------------------------------------------------------------
(* The detail objects of the gesture events (the CustomEvent payloads) *)

Ratio(n, d) == [num |-> n, den |-> d]

\* a pan detail whose deltas are the offsets
PanDetail_DeltaIsOffset(name, pointer, deltaX, deltaY, offsetX, offsetY) ==
    [name |-> name, x |-> pointer.currentX, y |-> pointer.currentY,
     deltaX |-> offsetX, deltaY |-> offsetY, offsetX |-> offsetX, offsetY |-> offsetY,
     pointerType |-> pointer.pointerType]

PanDetail(name, pointer, deltaX, deltaY, offsetX, offsetY) ==
    [name |-> name, x |-> pointer.currentX, y |-> pointer.currentY,
     deltaX |-> deltaX, deltaY |-> deltaY, offsetX |-> offsetX, offsetY |-> offsetY,
     pointerType |-> pointer.pointerType]

TapDetail(pointer) ==
    [name |-> "tap", x |-> pointer.currentX, y |-> pointer.currentY,
     pointerType |-> pointer.pointerType]

PressDetail(name, pointer, duration) ==
    [name |-> name, x |-> pointer.currentX, y |-> pointer.currentY,
     pointerType |-> pointer.pointerType, duration |-> duration]

PinchDetail(name, x, y, pointer, centerX, centerY, distance2) ==
    [name |-> name, x |-> x, y |-> y, pointerType |-> pointer.pointerType,
     centerX |-> centerX, centerY |-> centerY, distance2 |-> distance2]

----------------------------------------------------------------------------
(* The threshold tests of the handlers *)

\* config.pan?.threshold ?? 5
PanThresholdOf(cfg) == IF "pan" \in DOMAIN cfg THEN cfg.pan.threshold ELSE PanThresholdDefault

\* an onPressTimeout that does not look at the distance
PressWithinDistance_Any(d2) == TRUE

\* the bound of onPressTimeout made exclusive
PressWithinDistance_Exclusive(d2) == d2 < Sq(PressMaxDistance)

\* onPressTimeout: distance <= maxPressDistance
PressWithinDistance(d2) == d2 <= Sq(PressMaxDistance)

\* a pan that starts at the swipe distance
PanStarts_SwipeDistance(d2, panThreshold) == d2 >= Sq(SwipeMinDistance)

\* onPointerMove, POSSIBLE_TAP: distance >= panThreshold
PanStarts(d2, panThreshold) == d2 >= Sq(panThreshold)

\* the drift of a press measured against swipe.minDistance
PressDrifts_SwipeDistance(d2) == d2 >= Sq(SwipeMinDistance)

\* onPointerMove, PRESSING: distance >= maxPressDistance
PressDrifts(d2) == d2 >= Sq(PressMaxDistance)

\* the start of a pinch measured against press.maxDistance
PinchStarts_PressDistance(d2) == d2 >= Sq(PressMaxDistance)

\* onPointerMove, two pointers: distance >= pinchThreshold
PinchStarts(d2) == d2 >= Sq(PinchThreshold)

\* the tap test without its duration bound
IsTap_AnyDuration(duration, d2) == d2 <= Sq(TapMaxDistance)

\* the duration bound of a tap made exclusive
IsTap_Exclusive(duration, d2) == duration < TapMaxDuration /\ d2 <= Sq(TapMaxDistance)

\* onPointerUp, POSSIBLE_TAP: duration <= maxTapDuration && distance <= maxTapDistance
IsTap(duration, d2) == duration <= TapMaxDuration /\ d2 <= Sq(TapMaxDistance)

\* velocity >= minSwipeVelocity, where velocityX = offsetX / duration,
\* velocityY = offsetY / duration and velocity = Math.sqrt(velocityX ** 2 + velocityY ** 2).
\* With duration = 0 a non-zero offset divides to an infinity and a zero offset to
\* NaN; the magnitude is then infinite when both offsets are non-zero and NaN
\* otherwise, and NaN >= x is false.
VelocityReached(offsetX, offsetY, duration) ==
    IF duration = 0
    THEN offsetX # 0 /\ offsetY # 0
    ELSE Sq(SwipeMinVelocityDen) * (Sq(offsetX) + Sq(offsetY))
             >= Sq(SwipeMinVelocityNum) * Sq(duration)

\* the swipe test without its distance bound
IsSwipe_AnyDistance(offsetX, offsetY, duration) ==
    /\ VelocityReached(offsetX, offsetY, duration)
    /\ duration <= SwipeMaxDuration

\* the swipe test without its duration bound
IsSwipe_AnyDuration(offsetX, offsetY, duration) ==
    /\ VelocityReached(offsetX, offsetY, duration)
    /\ Sq(offsetX) + Sq(offsetY) >= Sq(SwipeMinDistance)

\* onPointerUp, PANNING: the test that makes the release a swipe
IsSwipe(offsetX, offsetY, duration) ==
    /\ VelocityReached(offsetX, offsetY, duration)
    /\ Sq(offsetX) + Sq(offsetY) >= Sq(SwipeMinDistance)
    /\ duration <= SwipeMaxDuration

\* the direction with a tie resolved to the horizontal
Direction_TieHorizontal(offsetX, offsetY) ==
    IF Abs(offsetX) >= Abs(offsetY)
    THEN (IF offsetX > 0 THEN "right" ELSE "left")
    ELSE (IF offsetY > 0 THEN "down" ELSE "up")

\* onPointerUp, PANNING: the direction of a swipe
Direction(offsetX, offsetY) ==
    IF Abs(offsetX) > Abs(offsetY)
    THEN (IF offsetX > 0 THEN "right" ELSE "left")
    ELSE (IF offsetY > 0 THEN "down" ELSE "up")

SwipeDetail(pointer, offsetX, offsetY, duration) ==
    [name |-> "swipe", x |-> pointer.currentX, y |-> pointer.currentY,
     pointerType |-> pointer.pointerType,
     velocityX |-> Ratio(offsetX, duration), velocityY |-> Ratio(offsetY, duration),
     velocity2 |-> Ratio(Sq(offsetX) + Sq(offsetY), Sq(duration)),
     direction |-> Direction(offsetX, offsetY),
     distance2 |-> Sq(offsetX) + Sq(offsetY)]

----------------------------------------------------------------------------
(* The recognizer as a record, and its private methods.  `dispatched` is   *)
(* what the running handler has dispatched so far.                         *)

Self ==
    [config |-> config, state |-> state, activePointers |-> activePointers,
     captured |-> captured, pressTimeoutId |-> pressTimeoutId, timers |-> timers,
     listening |-> listening, dispatched |-> <<>>]

dispatchGestureEvent(self, detail) ==
    [self EXCEPT !.dispatched = Append(@, detail)]

\* a clearPressTimeout that leaves the timer pending
clearPressTimeout_Forgets(self) == self

\* a clearPressTimeout that drops the handle without clearing the timer
clearPressTimeout_DropsHandle(self) == [self EXCEPT !.pressTimeoutId = Null]

clearPressTimeout(self) ==
    IF self.pressTimeoutId # Null
    THEN [self EXCEPT !.timers = {t \in @ : t.handle # self.pressTimeoutId},
                      !.pressTimeoutId = Null]
    ELSE self

\* a resetGestureState that leaves this.state as it is
resetGestureState_KeepsState(self) ==
    clearPressTimeout(
        [self EXCEPT !.captured = @ \ Ids(self.activePointers),
                     !.activePointers = <<>>])

\* a resetGestureState that leaves the press timer pending
resetGestureState_KeepsTimer(self) ==
    [self EXCEPT !.state = "IDLE",
                 !.captured = @ \ Ids(self.activePointers),
                 !.activePointers = <<>>]

resetGestureState(self) ==
    clearPressTimeout(
        [self EXCEPT !.state = "IDLE",
                     !.captured = @ \ Ids(self.activePointers),
                     !.activePointers = <<>>])

\* window.setTimeout returns a handle no pending timer has
NewHandle(self) ==
    CHOOSE h \in 1..(Cardinality(self.timers) + 2) :
        /\ h # self.pressTimeoutId
        /\ \A t \in self.timers : t.handle # h

----------------------------------------------------------------------------
(* The handlers, as functions from the recognizer (and the event, and the  *)
(* value of performance.now()) to the recognizer after the handler         *)
(* returned.                                                               *)

PointerEvent(id, p) == [pointerId |-> id, clientX |-> p[1], clientY |-> p[2]]

\* a press timer that is due at once
PressTimer_Immediate(self, t) == [handle |-> NewHandle(self), due |-> t]

\* window.setTimeout(this.onPressTimeout, minPressDuration): the pending timer
PressTimer(self, t) == [handle |-> NewHandle(self), due |-> t + PressMinDuration]

\* an onPointerDown whose second pointer leaves the state as it was
onPointerDown_KeepsState(self, event, t) ==
    LET tracked == [self EXCEPT !.activePointers =
                        MapSet(@, ActivePointer(event.pointerId, event.clientX,
                                                event.clientY, t))]
        size == Len(tracked.activePointers)
        capture(s) == [s EXCEPT !.captured = @ \cup {event.pointerId}]
    IN  IF size = 1
        THEN LET timer == PressTimer(tracked, t)
             IN capture([tracked EXCEPT
                    !.state = "POSSIBLE_TAP",
                    !.timers = @ \cup {timer},
                    !.pressTimeoutId = timer.handle])
        ELSE IF size = 2
        THEN LET cleared == clearPressTimeout(tracked)
                 primaryPointer == cleared.activePointers[1]
             IN  capture(IF cleared.state = "PANNING"
                         THEN dispatchGestureEvent(cleared,
                                  PanDetail("pancancel", primaryPointer, 0, 0,
                                      primaryPointer.currentX - primaryPointer.startX,
                                      primaryPointer.currentY - primaryPointer.startY))
                         ELSE cleared)
        ELSE tracked

\* an onPointerDown that takes every pointer after the first as the second
onPointerDown_ThirdJoins(self, event, t) ==
    LET tracked == [self EXCEPT !.activePointers =
                        MapSet(@, ActivePointer(event.pointerId, event.clientX,
                                                event.clientY, t))]
        capture(s) == [s EXCEPT !.captured = @ \cup {event.pointerId}]
    IN  IF Len(tracked.activePointers) = 1
        THEN LET timer == PressTimer(tracked, t)
             IN capture([tracked EXCEPT
                    !.state = "POSSIBLE_TAP",
                    !.timers = @ \cup {timer},
                    !.pressTimeoutId = timer.handle])
        ELSE capture([clearPressTimeout(tracked) EXCEPT !.state = "POSSIBLE_MULTI_TOUCH"])

\* an onPointerDown that takes no second pointer once the span had one
onPointerDown_NoRejoin(self, event, t) ==
    LET tracked == [self EXCEPT !.activePointers =
                        MapSet(@, ActivePointer(event.pointerId, event.clientX,
                                                event.clientY, t))]
        size == Len(tracked.activePointers)
        capture(s) == [s EXCEPT !.captured = @ \cup {event.pointerId}]
    IN  IF size = 1
        THEN LET timer == PressTimer(tracked, t)
             IN capture([tracked EXCEPT
                    !.state = "POSSIBLE_TAP",
                    !.timers = @ \cup {timer},
                    !.pressTimeoutId = timer.handle])
        ELSE IF size = 2 /\ self.state \notin {"POSSIBLE_MULTI_TOUCH", "PINCHING"}
        THEN LET cleared == clearPressTimeout(tracked)
                 primaryPointer == cleared.activePointers[1]
                 canceled ==
                     IF cleared.state = "PANNING"
                     THEN dispatchGestureEvent(cleared,
                              PanDetail("pancancel", primaryPointer, 0, 0,
                                  primaryPointer.currentX - primaryPointer.startX,
                                  primaryPointer.currentY - primaryPointer.startY))
                     ELSE cleared
             IN capture([canceled EXCEPT !.state = "POSSIBLE_MULTI_TOUCH"])
        ELSE self

\* an onPointerDown whose second pointer leaves an ongoing pan open
onPointerDown_NoPanCancel(self, event, t) ==
    LET tracked == [self EXCEPT !.activePointers =
                        MapSet(@, ActivePointer(event.pointerId, event.clientX,
                                                event.clientY, t))]
        size == Len(tracked.activePointers)
        capture(s) == [s EXCEPT !.captured = @ \cup {event.pointerId}]
    IN  IF size = 1
        THEN LET timer == PressTimer(tracked, t)
             IN capture([tracked EXCEPT
                    !.state = "POSSIBLE_TAP",
                    !.timers = @ \cup {timer},
                    !.pressTimeoutId = timer.handle])
        ELSE IF size = 2
        THEN capture([clearPressTimeout(tracked) EXCEPT !.state = "POSSIBLE_MULTI_TOUCH"])
        ELSE tracked

onPointerDown(self, event, t) ==
    LET tracked == [self EXCEPT !.activePointers =
                        MapSet(@, ActivePointer(event.pointerId, event.clientX,
                                                event.clientY, t))]
        size == Len(tracked.activePointers)
        capture(s) == [s EXCEPT !.captured = @ \cup {event.pointerId}]
    IN  IF size = 1
        THEN LET timer == PressTimer(tracked, t)
             IN capture([tracked EXCEPT
                    !.state = "POSSIBLE_TAP",
                    !.timers = @ \cup {timer},
                    !.pressTimeoutId = timer.handle])
        ELSE IF size = 2
        THEN LET cleared == clearPressTimeout(tracked)
                 primaryPointer == cleared.activePointers[1]
                 canceled ==
                     IF cleared.state = "PANNING"
                     THEN dispatchGestureEvent(cleared,
                              PanDetail("pancancel", primaryPointer, 0, 0,
                                  primaryPointer.currentX - primaryPointer.startX,
                                  primaryPointer.currentY - primaryPointer.startY))
                     ELSE cleared
             IN capture([canceled EXCEPT !.state = "POSSIBLE_MULTI_TOUCH"])
        ELSE tracked

\* an onPressTimeout that does not look at this.state
onPressTimeout_NoStateTest(self, fired, t) ==
    LET run == [self EXCEPT !.timers = @ \ {fired}]
        pointer == run.activePointers[1]
        distance2 == Dist2(pointer.currentX, pointer.currentY,
                           pointer.startX, pointer.startY)
        after ==
            IF Len(run.activePointers) > 0
            THEN IF PressWithinDistance(distance2)
                 THEN dispatchGestureEvent([run EXCEPT !.state = "PRESSING"],
                          PressDetail("pressstart", pointer, t - pointer.downTime))
                 ELSE resetGestureState(run)
            ELSE run
    IN  [after EXCEPT !.pressTimeoutId = Null]

\* `fired` is the timer entry whose callback runs: the scheduler has dropped it
onPressTimeout(self, fired, t) ==
    LET run == [self EXCEPT !.timers = @ \ {fired}]
        pointer == run.activePointers[1]
        distance2 == Dist2(pointer.currentX, pointer.currentY,
                           pointer.startX, pointer.startY)
        after ==
            IF run.state = "POSSIBLE_TAP" /\ Len(run.activePointers) > 0
            THEN IF PressWithinDistance(distance2)
                 THEN dispatchGestureEvent([run EXCEPT !.state = "PRESSING"],
                          PressDetail("pressstart", pointer, t - pointer.downTime))
                 ELSE resetGestureState(run)
            ELSE run
    IN  [after EXCEPT !.pressTimeoutId = Null]

\* the two tests of the pinch branch chained by else: the move that starts the
\* pinch dispatches no pinchmove
PinchMove_ElseIf(self, pointer, t) ==
    LET otherPointer ==
            self.activePointers[CHOOSE i \in 1..Len(self.activePointers) :
                                    self.activePointers[i].id # pointer.id]
        centerX == Ratio(pointer.startX + otherPointer.startX, 2)
        centerY == Ratio(pointer.startY + otherPointer.startY, 2)
        distance2 == Dist2(otherPointer.currentX, otherPointer.currentY,
                           pointer.currentX, pointer.currentY)
    IN  IF self.state = "POSSIBLE_MULTI_TOUCH"
        THEN IF PinchStarts(distance2)
             THEN dispatchGestureEvent([self EXCEPT !.state = "PINCHING"],
                      PinchDetail("pinchstart", centerX, centerY, pointer,
                                  centerX, centerY, distance2))
             ELSE self
        ELSE IF self.state = "PINCHING"
        THEN dispatchGestureEvent(self,
                 PinchDetail("pinchmove", centerX, centerY, pointer,
                             centerX, centerY, distance2))
        ELSE self

\* a two-pointer branch that starts a pinch whatever the state
PinchMove_Restarts(self, pointer, t) ==
    LET otherPointer ==
            self.activePointers[CHOOSE i \in 1..Len(self.activePointers) :
                                    self.activePointers[i].id # pointer.id]
        centerX == Ratio(pointer.startX + otherPointer.startX, 2)
        centerY == Ratio(pointer.startY + otherPointer.startY, 2)
        distance2 == Dist2(otherPointer.currentX, otherPointer.currentY,
                           pointer.currentX, pointer.currentY)
        started ==
            IF PinchStarts(distance2)
            THEN dispatchGestureEvent([self EXCEPT !.state = "PINCHING"],
                     PinchDetail("pinchstart", centerX, centerY, pointer,
                                 centerX, centerY, distance2))
            ELSE self
    IN  IF started.state = "PINCHING"
        THEN dispatchGestureEvent(started,
                 PinchDetail("pinchmove", centerX, centerY, pointer,
                             centerX, centerY, distance2))
        ELSE started

\* onPointerMove with two pointers tracked (the branch that returns)
PinchMove(self, pointer, t) ==
    LET otherPointer ==
            self.activePointers[CHOOSE i \in 1..Len(self.activePointers) :
                                    self.activePointers[i].id # pointer.id]
        centerX == Ratio(pointer.startX + otherPointer.startX, 2)
        centerY == Ratio(pointer.startY + otherPointer.startY, 2)
        distance2 == Dist2(otherPointer.currentX, otherPointer.currentY,
                           pointer.currentX, pointer.currentY)
        started ==
            IF self.state = "POSSIBLE_MULTI_TOUCH" /\ PinchStarts(distance2)
            THEN dispatchGestureEvent([self EXCEPT !.state = "PINCHING"],
                     PinchDetail("pinchstart", centerX, centerY, pointer,
                                 centerX, centerY, distance2))
            ELSE self
    IN  IF started.state = "PINCHING"
        THEN dispatchGestureEvent(started,
                 PinchDetail("pinchmove", centerX, centerY, pointer,
                             centerX, centerY, distance2))
        ELSE started

\* a switch whose POSSIBLE_TAP case falls through to the PANNING case
PanMove_FallsThrough(self, pointer, deltaX, deltaY, t) ==
    LET offsetX == pointer.currentX - pointer.startX
        offsetY == pointer.currentY - pointer.startY
        distance2 == Sq(offsetX) + Sq(offsetY)
        pan(name) == PanDetail(name, pointer, deltaX, deltaY, offsetX, offsetY)
    IN  CASE self.state = "POSSIBLE_TAP" ->
                 IF PanStarts(distance2, PanThresholdOf(self.config))
                 THEN dispatchGestureEvent(
                          dispatchGestureEvent(
                              [clearPressTimeout(self) EXCEPT !.state = "PANNING"],
                              pan("panstart")),
                          pan("panmove"))
                 ELSE self
          [] self.state = "PRESSING" ->
                 IF PressDrifts(distance2)
                 THEN dispatchGestureEvent(
                          [dispatchGestureEvent(self,
                               PressDetail("presscancel", pointer, t - pointer.downTime))
                           EXCEPT !.state = "PANNING"],
                          pan("panstart"))
                 ELSE self
          [] self.state = "PANNING" ->
                 dispatchGestureEvent(self, pan("panmove"))
          [] OTHER -> self

\* the switch with a POSSIBLE_TAP case that dispatches panstart and leaves the
\* state as it was
PanMove_KeepsState(self, pointer, deltaX, deltaY, t) ==
    LET offsetX == pointer.currentX - pointer.startX
        offsetY == pointer.currentY - pointer.startY
        distance2 == Sq(offsetX) + Sq(offsetY)
        pan(name) == PanDetail(name, pointer, deltaX, deltaY, offsetX, offsetY)
    IN  CASE self.state = "POSSIBLE_TAP" ->
                 IF PanStarts(distance2, PanThresholdOf(self.config))
                 THEN dispatchGestureEvent(clearPressTimeout(self), pan("panstart"))
                 ELSE self
          [] self.state = "PRESSING" ->
                 IF PressDrifts(distance2)
                 THEN dispatchGestureEvent(
                          [dispatchGestureEvent(self,
                               PressDetail("presscancel", pointer, t - pointer.downTime))
                           EXCEPT !.state = "PANNING"],
                          pan("panstart"))
                 ELSE self
          [] self.state = "PANNING" ->
                 dispatchGestureEvent(self, pan("panmove"))
          [] OTHER -> self

\* onPointerMove otherwise: the switch on this.state
PanMove(self, pointer, deltaX, deltaY, t) ==
    LET offsetX == pointer.currentX - pointer.startX
        offsetY == pointer.currentY - pointer.startY
        distance2 == Sq(offsetX) + Sq(offsetY)
        pan(name) == PanDetail(name, pointer, deltaX, deltaY, offsetX, offsetY)
    IN  CASE self.state = "POSSIBLE_TAP" ->
                 IF PanStarts(distance2, PanThresholdOf(self.config))
                 THEN dispatchGestureEvent(
                          [clearPressTimeout(self) EXCEPT !.state = "PANNING"],
                          pan("panstart"))
                 ELSE self
          [] self.state = "PRESSING" ->
                 IF PressDrifts(distance2)
                 THEN dispatchGestureEvent(
                          [dispatchGestureEvent(self,
                               PressDetail("presscancel", pointer, t - pointer.downTime))
                           EXCEPT !.state = "PANNING"],
                          pan("panstart"))
                 ELSE self
          [] self.state = "PANNING" ->
                 dispatchGestureEvent(self, pan("panmove"))
          [] OTHER -> self

onPointerMove(self, event, t) ==
    IF ~Has(self.activePointers, event.pointerId)
    THEN self
    ELSE LET pointer == [Get(self.activePointers, event.pointerId) EXCEPT
                            !.currentX = event.clientX, !.currentY = event.clientY]
             updated == [self EXCEPT !.activePointers = MapSet(@, pointer)]
         IN  IF Len(updated.activePointers) = 2
             THEN PinchMove(updated, pointer, t)
             ELSE PanMove(updated, pointer,
                          event.clientX - pointer.currentX,
                          event.clientY - pointer.currentY, t)

\* a pointer-up that ends a pinch that has not started
PinchUp_EndsAlways(self, pointer) ==
    LET otherPointer == self.activePointers[1]
        centerX == Ratio(pointer.startX + otherPointer.startX, 2)
        centerY == Ratio(pointer.startY + otherPointer.startY, 2)
        distance2 == Dist2(otherPointer.currentX, otherPointer.currentY,
                           pointer.currentX, pointer.currentY)
    IN  dispatchGestureEvent(self,
            PinchDetail("pinchend", pointer.currentX, pointer.currentY, pointer,
                        centerX, centerY, distance2))

\* onPointerUp when one pointer remains tracked (the branch that returns)
PinchUp(self, pointer) ==
    LET otherPointer == self.activePointers[1]
        centerX == Ratio(pointer.startX + otherPointer.startX, 2)
        centerY == Ratio(pointer.startY + otherPointer.startY, 2)
        distance2 == Dist2(otherPointer.currentX, otherPointer.currentY,
                           pointer.currentX, pointer.currentY)
    IN  IF self.state = "PINCHING"
        THEN dispatchGestureEvent(self,
                 PinchDetail("pinchend", pointer.currentX, pointer.currentY, pointer,
                             centerX, centerY, distance2))
        ELSE self

\* a LastUp that ends a press when the release in POSSIBLE_TAP is no tap
LastUp_PressEndWhenNoTap(self, pointer, t) ==
    LET offsetX == pointer.currentX - pointer.startX
        offsetY == pointer.currentY - pointer.startY
        distance2 == Sq(offsetX) + Sq(offsetY)
        duration == t - pointer.downTime
    IN  CASE self.state \in {"POSSIBLE_TAP", "PRESSING"} ->
                 IF self.state = "POSSIBLE_TAP" /\ IsTap(duration, distance2)
                 THEN dispatchGestureEvent(clearPressTimeout(self), TapDetail(pointer))
                 ELSE dispatchGestureEvent(clearPressTimeout(self),
                          PressDetail("pressend", pointer, duration))
          [] self.state = "PANNING" ->
                 IF IsSwipe(offsetX, offsetY, duration)
                 THEN dispatchGestureEvent([self EXCEPT !.state = "SWIPING"],
                          SwipeDetail(pointer, offsetX, offsetY, duration))
                 ELSE dispatchGestureEvent(self,
                          PanDetail("panend", pointer, 0, 0, offsetX, offsetY))
          [] OTHER -> self

\* onPointerUp when no pointer remains tracked: the switch on this.state
LastUp(self, pointer, t) ==
    LET offsetX == pointer.currentX - pointer.startX
        offsetY == pointer.currentY - pointer.startY
        distance2 == Sq(offsetX) + Sq(offsetY)
        duration == t - pointer.downTime
    IN  CASE self.state = "POSSIBLE_TAP" ->
                 LET cleared == clearPressTimeout(self)
                 IN  IF IsTap(duration, distance2)
                     THEN dispatchGestureEvent(cleared, TapDetail(pointer))
                     ELSE cleared
          [] self.state = "PRESSING" ->
                 dispatchGestureEvent(clearPressTimeout(self),
                     PressDetail("pressend", pointer, duration))
          [] self.state = "PANNING" ->
                 IF IsSwipe(offsetX, offsetY, duration)
                 THEN dispatchGestureEvent([self EXCEPT !.state = "SWIPING"],
                          SwipeDetail(pointer, offsetX, offsetY, duration))
                 ELSE dispatchGestureEvent(self,
                          PanDetail("panend", pointer, 0, 0, offsetX, offsetY))
          [] OTHER -> self

\* an onPointerUp that resets the gesture when the pointer is not tracked
onPointerUp_ResetsOnUnknown(self, event, t) ==
    IF ~Has(self.activePointers, event.pointerId)
    THEN resetGestureState(self)
    ELSE LET pointer == Get(self.activePointers, event.pointerId)
             released == [self EXCEPT !.captured = @ \ {event.pointerId},
                                      !.activePointers = MapDelete(@, event.pointerId)]
             size == Len(released.activePointers)
         IN  IF size = 1
             THEN PinchUp(released, pointer)
             ELSE IF size = 0
             THEN resetGestureState(LastUp(released, pointer, t))
             ELSE resetGestureState(released)

\* an onPointerUp that takes the one-remaining branch whenever a pointer remains
onPointerUp_SomeRemain(self, event, t) ==
    IF ~Has(self.activePointers, event.pointerId)
    THEN self
    ELSE LET pointer == Get(self.activePointers, event.pointerId)
             released == [self EXCEPT !.captured = @ \ {event.pointerId},
                                      !.activePointers = MapDelete(@, event.pointerId)]
             size == Len(released.activePointers)
         IN  IF size >= 1
             THEN PinchUp(released, pointer)
             ELSE resetGestureState(LastUp(released, pointer, t))

\* an onPointerUp that returns after the swipe, without the reset
onPointerUp_SwipeReturns(self, event, t) ==
    IF ~Has(self.activePointers, event.pointerId)
    THEN self
    ELSE LET pointer == Get(self.activePointers, event.pointerId)
             released == [self EXCEPT !.captured = @ \ {event.pointerId},
                                      !.activePointers = MapDelete(@, event.pointerId)]
             size == Len(released.activePointers)
             switched == LastUp(released, pointer, t)
         IN  IF size = 1
             THEN PinchUp(released, pointer)
             ELSE IF size = 0
             THEN IF switched.state = "SWIPING" THEN switched
                  ELSE resetGestureState(switched)
             ELSE resetGestureState(released)

onPointerUp(self, event, t) ==
    IF ~Has(self.activePointers, event.pointerId)
    THEN self
    ELSE LET pointer == Get(self.activePointers, event.pointerId)
             released == [self EXCEPT !.captured = @ \ {event.pointerId},
                                      !.activePointers = MapDelete(@, event.pointerId)]
             size == Len(released.activePointers)
         IN  IF size = 1
             THEN PinchUp(released, pointer)
             ELSE IF size = 0
             THEN resetGestureState(LastUp(released, pointer, t))
             ELSE resetGestureState(released)

\* an onPointerCancel that untracks the cancelled pointer only
onPointerCancel_KeepsOther(self, event, t) ==
    IF ~Has(self.activePointers, event.pointerId)
    THEN self
    ELSE LET released == [self EXCEPT !.captured = @ \ {event.pointerId},
                                      !.activePointers = MapDelete(@, event.pointerId)]
         IN  IF Len(released.activePointers) > 0
             THEN released
             ELSE resetGestureState(released)

\* an onPointerCancel that resets without a cancel event
onPointerCancel_Silent(self, event, t) ==
    IF ~Has(self.activePointers, event.pointerId)
    THEN self
    ELSE resetGestureState(
             [self EXCEPT !.captured = @ \ {event.pointerId},
                          !.activePointers = MapDelete(@, event.pointerId)])

onPointerCancel(self, event, t) ==
    IF ~Has(self.activePointers, event.pointerId)
    THEN self
    ELSE LET pointer == Get(self.activePointers, event.pointerId)
             released == clearPressTimeout(
                             [self EXCEPT !.captured = @ \ {event.pointerId},
                                          !.activePointers = MapDelete(@, event.pointerId)])
             canceled ==
                 CASE released.state \in {"POSSIBLE_TAP", "PRESSING"} ->
                          dispatchGestureEvent(released,
                              PressDetail("presscancel", pointer, t - pointer.downTime))
                   [] released.state = "PANNING" ->
                          dispatchGestureEvent(released,
                              PanDetail("pancancel", pointer, 0, 0,
                                        pointer.currentX - pointer.startX,
                                        pointer.currentY - pointer.startY))
                   [] OTHER -> released
         IN  resetGestureState(canceled)

\* a removeEventListeners that removes nothing
removeEventListeners_KeepsListening(self) == self

\* a removeEventListeners that subscribes again when called unsubscribed
removeEventListeners_Toggles(self) == [self EXCEPT !.listening = ~@]

removeEventListeners(self) == [self EXCEPT !.listening = FALSE]

\* a destroy that unsubscribes and leaves the gesture in flight as it is
destroy_OnlyUnsubscribes(self) == removeEventListeners(self)

destroy(self) == resetGestureState(removeEventListeners(self))

----------------------------------------------------------------------------
(* The state machine *)

Min(a, b) == IF a < b THEN a ELSE b

ZeroCount == [n \in EventNames |-> 0]

Bump(c, evs) ==
    [n \in EventNames |->
        Min(CountCap, c[n] + Cardinality({i \in 1..Len(evs) : evs[i].name = n}))]

\* multi: a second pointer was tracked in the span.  The others tell what the
\* pointer did while it was the only one of the span: fired: the press timer's
\* callback ran; panReach: before that, a move put the pointer at pan.threshold or
\* farther from its start; drift: after that, a move put it at press.maxDistance or
\* farther; beyond: a move put it farther than press.maxDistance.  late: the
\* element got a pointer event after destroy() had removed the listeners.
\* disposed: the number of calls of destroy().  pressed: the duration that the
\* span's pressstart carried, 0 without one.  stray: with no pointer tracked and
\* the listeners registered, a move, up or cancel came (for a pointer that is
\* then not tracked).  crowd: a pointer went down while two were tracked.
FreshHist == [multi |-> FALSE, fired |-> FALSE, panReach |-> FALSE,
              drift |-> FALSE, beyond |-> FALSE, late |-> FALSE, disposed |-> 0,
              pressed |-> 0, stray |-> FALSE, crowd |-> FALSE]

\* the element got a move, up or cancel: it is a late one when no listener is
\* registered, and a stray one when no pointer is tracked
Arrived(h) == IF ~listening THEN [h EXCEPT !.late = TRUE]
              ELSE IF activePointers = <<>> THEN [h EXCEPT !.stray = TRUE]
              ELSE h

Init ==
    /\ config \in Configs
    /\ state = "IDLE"
    /\ activePointers = <<>>
    /\ captured = {}
    /\ pressTimeoutId = Null
    /\ timers = {}
    /\ listening = TRUE
    /\ now = 0
    /\ last = <<>>
    /\ count = ZeroCount
    /\ hist = FreshHist

\* A clock reading is compared with a later one in these states only, and by a
\* pending timer.  Only differences of readings are used, so whenever none can be
\* used any more the clock is counted anew.
ClockRead(self) == self.state \in {"POSSIBLE_TAP", "PRESSING", "PANNING"} \/ self.timers # {}

\* the handler returned `self`: the fields, what it dispatched, and the clock
Commit(self) ==
    /\ state' = self.state
    /\ activePointers' = self.activePointers
    /\ captured' = self.captured
    /\ pressTimeoutId' = self.pressTimeoutId
    /\ timers' = self.timers
    /\ listening' = self.listening
    /\ last' = self.dispatched
    /\ count' = Bump(IF Len(activePointers) = 0 /\ Len(self.activePointers) > 0
                     THEN ZeroCount ELSE count, self.dispatched)
    /\ now' = IF ClockRead(self) THEN now ELSE 0
    /\ UNCHANGED config

\* where the pointers move to, by the number of tracked pointers
Reach == IF Len(activePointers) <= 1 THEN MovePoints
         ELSE IF Len(activePointers) = 2 THEN PinchPoints ELSE CrowdPoints

\* The event source gives a pointer that goes down an id no tracked pointer has:
\* the least one.
\* (an event reaches its handler only while the listener is registered)
PointerDown(id, p) ==
    /\ id \in PointerIds \ Ids(activePointers)
    /\ \A other \in PointerIds \ Ids(activePointers) : id <= other
    /\ Commit(IF listening THEN onPointerDown(Self, PointerEvent(id, p), now) ELSE Self)
    /\ hist' = IF ~listening THEN [hist EXCEPT !.late = TRUE]
               ELSE IF Len(activePointers) = 0 THEN FreshHist
               ELSE [FreshHist EXCEPT !.multi = TRUE,
                                      !.crowd = Len(activePointers) >= 2]

PointerMove(id, p) ==
    /\ p \in Reach
    /\ Commit(IF listening THEN onPointerMove(Self, PointerEvent(id, p), now) ELSE Self)
    /\ hist' = IF listening /\ ~hist.multi /\ Has(activePointers, id)
               THEN LET pointer == Get(activePointers, id)
                        d2 == Dist2(p[1], p[2], pointer.startX, pointer.startY)
                    IN  [hist EXCEPT
                           !.panReach = @ \/ (~hist.fired /\ d2 >= Sq(PanThresholdOf(config))),
                           !.drift = @ \/ (hist.fired /\ d2 >= Sq(PressMaxDistance)),
                           !.beyond = @ \/ d2 > Sq(PressMaxDistance)]
               ELSE Arrived(hist)

PointerUp(id) ==
    /\ Commit(IF listening THEN onPointerUp(Self, [pointerId |-> id], now) ELSE Self)
    /\ hist' = Arrived(hist)

PointerCancel(id) ==
    /\ Commit(IF listening THEN onPointerCancel(Self, [pointerId |-> id], now) ELSE Self)
    /\ hist' = Arrived(hist)

\* a pending timer whose delay has elapsed runs its callback, on time or late
PressTimeout ==
    \E fired \in timers :
        /\ fired.due <= now
        /\ Commit(onPressTimeout(Self, fired, now))
        /\ hist' = IF hist.multi THEN hist
                   ELSE [hist EXCEPT !.fired = TRUE,
                                     !.pressed = IF last' # <<>> THEN last'[1].duration ELSE @]

Destroy ==
    /\ Commit(destroy(Self))
    /\ hist' = [hist EXCEPT !.disposed = Min(DestroyCap, @ + 1)]

Tick(d) ==
    /\ ClockRead(Self)
    /\ now + d <= MaxTime
    /\ now' = now + d
    /\ last' = <<>>
    /\ UNCHANGED <<config, state, activePointers, captured, pressTimeoutId, timers,
                   listening, count, hist>>

Next ==
    \/ \E id \in PointerIds, p \in StartPoints : PointerDown(id, p)
    \/ \E id \in PointerIds, p \in MovePoints : PointerMove(id, p)
    \/ \E id \in PointerIds : PointerUp(id)
    \/ \E id \in PointerIds : PointerCancel(id)
    \/ PressTimeout
    \/ Destroy
    \/ \E d \in TickSteps : Tick(d)

Spec == Init /\ [][Next]_vars

\* The callback onPressTimeout as a function of the recognizer it finds: a
\* recognizer in any state, with none, one or two pointers tracked, and a press
\* timer pending that is due.  The events that follow arrive before the clock
\* moves on.
AnyPointers ==
    {<<>>,
     <<ActivePointer(1, 10, 10, 0)>>,
     <<[ActivePointer(1, 10, 10, 0) EXCEPT !.currentX = 22]>>,
     <<ActivePointer(1, 10, 10, 0), ActivePointer(2, 10, 10, 0)>>}

InitAnyState ==
    /\ config \in Configs
    /\ state \in GestureState
    /\ activePointers \in AnyPointers
    /\ captured = Ids(activePointers)
    /\ pressTimeoutId = 1
    /\ timers = {PressTimer([timers |-> {}, pressTimeoutId |-> Null], 0)}
    /\ listening = TRUE
    /\ now = PressMinDuration
    /\ last = <<>>
    /\ count = ZeroCount
    /\ hist = [FreshHist EXCEPT !.multi = Len(activePointers) = 2]

NextAnyState ==
    \/ \E id \in PointerIds, p \in StartPoints : PointerDown(id, p)
    \/ \E id \in PointerIds, p \in MovePoints : PointerMove(id, p)
    \/ \E id \in PointerIds : PointerUp(id)
    \/ \E id \in PointerIds : PointerCancel(id)
    \/ PressTimeout
    \/ Destroy

SpecAnyState == InitAnyState /\ [][NextAnyState]_vars

----------------------------------------------------------------------------
(* Vocabulary of the properties *)

Names(evs) == [i \in 1..Len(evs) |-> evs[i].name]

PanNames == {"panstart", "panmove", "panend", "pancancel"}
PressNames == {"pressstart", "pressend", "presscancel"}
PinchNames == {"pinchstart", "pinchmove", "pinchend"}

\* the step is the first pointer-down of a span
SpanStart == Len(activePointers) = 0 /\ Len(activePointers') > 0

\* `id` is the only pointer of a span that never had a second one
Sole(id) ==
    /\ listening
    /\ ~hist.multi
    /\ Len(activePointers) = 1
    /\ activePointers[1].id = id

\* the sole pointer's squared distance from its start, and the time since its down
SoleDist2 == Dist2(activePointers[1].currentX, activePointers[1].currentY,
                   activePointers[1].startX, activePointers[1].startY)
SoleAge == now - activePointers[1].downTime

\* where a move to p puts pointer `id`, squared, from its start
MoveDist2(id, p) ==
    Dist2(p[1], p[2], Get(activePointers, id).startX, Get(activePointers, id).startY)

----------------------------------------------------------------------------
(* C1, as claimed: a sole pointer released before press.minDuration has    *)
(* elapsed and within tap.maxDistance of its start gives exactly one tap,  *)
(* no pressstart and no pan event.                                         *)
C1_AsClaimed ==
    [][\A id \in PointerIds :
          (Sole(id) /\ SoleAge < PressMinDuration
                    /\ SoleDist2 <= Sq(TapMaxDistance) /\ PointerUp(id))
          => /\ Names(last') = <<"tap">>
             /\ count'["pressstart"] = 0
             /\ \A n \in PanNames : count'[n] = 0]_vars

(* C1, amended: a sole pointer released no later than tap.maxDuration      *)
(* after its down, within tap.maxDistance of its start, and that no move   *)
(* had put at pan.threshold or farther from its start, gives exactly one   *)
(* tap (the first of the span), no pressstart and no pan event.            *)
C1_TapOnQuickRelease ==
    [][\A id \in PointerIds :
          (Sole(id) /\ SoleAge <= TapMaxDuration /\ SoleDist2 <= Sq(TapMaxDistance)
                    /\ ~hist.panReach /\ PointerUp(id))
          => /\ Names(last') = <<"tap">>
             /\ count["tap"] = 0
             /\ count'["pressstart"] = 0
             /\ \A n \in PanNames : count'[n] = 0]_vars

\* a tap was dispatched for a pointer that had moved, and nothing else in the span
C1_Witness ==
    /\ Names(last) = <<"tap">>
    /\ last[1].x = 13
    /\ \A n \in EventNames \ {"tap"} : count[n] = 0

C3_DriftingPressBecomesPan ==
    [][/\ \A id \in PointerIds, p \in MovePoints :
            (Sole(id) /\ state = "PRESSING" /\ MoveDist2(id, p) > Sq(PressMaxDistance)
                      /\ PointerMove(id, p))
            => /\ Names(last') = <<"presscancel", "panstart">>
               /\ state' = "PANNING"
               /\ count["presscancel"] = 0 /\ count["panstart"] = 0
       /\ (count["pressstart"] > 0 /\ count["panstart"] > 0 /\ ~SpanStart)
            => count'["pressend"] = 0]_vars

\* the move of a pressing pointer to 12 from its start has canceled the press
C3_Witness ==
    /\ Names(last) = <<"presscancel", "panstart">>
    /\ state = "PANNING"
    /\ last[2].offsetX = 12

(* C4: a move that puts the sole pointer of state POSSIBLE_TAP at          *)
(* pan.threshold or farther from its start leaves the state PANNING with   *)
(* no press timer pending; and once a span has a panstart and no press     *)
(* event, it never gets a press event.                                     *)
C4_EarlyPanNeverPresses ==
    [][/\ \A id \in PointerIds, p \in MovePoints :
            (Sole(id) /\ state = "POSSIBLE_TAP"
                      /\ MoveDist2(id, p) >= Sq(PanThresholdOf(config))
                      /\ PointerMove(id, p))
            => /\ state' = "PANNING"
               /\ Names(last') = <<"panstart">>
               /\ pressTimeoutId' = Null
               /\ timers' = {}
       /\ (count["panstart"] > 0 /\ (\A n \in PressNames : count[n] = 0) /\ ~SpanStart)
            => \A n \in PressNames : count'[n] = 0]_vars

\* a pan that started before the press delay is held beyond it: no press event
C4_Witness ==
    /\ state = "PANNING"
    /\ now >= PressMinDuration + 50
    /\ count["panstart"] = 1
    /\ \A n \in PressNames : count[n] = 0

(* C5: the release of the last pointer in state PANNING dispatches exactly *)
(* one event, swipe or panend: swipe if and only if the velocity the       *)
(* handler computed is at least swipe.minVelocity, the distance at least   *)
(* swipe.minDistance and the duration at most swipe.maxDuration; a panend  *)
(* has zero deltas and the final offsets.                                  *)
C5_SwipeOrPanEnd ==
    [][\A id \in PointerIds :
          (listening /\ state = "PANNING" /\ Len(activePointers) = 1
               /\ activePointers[1].id = id /\ PointerUp(id))
          => LET pointer == activePointers[1]
                 offsetX == pointer.currentX - pointer.startX
                 offsetY == pointer.currentY - pointer.startY
                 qualifies ==
                     /\ VelocityReached(offsetX, offsetY, SoleAge)
                     /\ SoleDist2 >= Sq(SwipeMinDistance)
                     /\ SoleAge <= SwipeMaxDuration
             IN  /\ Names(last') \in {<<"swipe">>, <<"panend">>}
                 /\ (Names(last') = <<"swipe">>) <=> qualifies
                 /\ Names(last') = <<"panend">> =>
                        /\ last'[1].deltaX = 0 /\ last'[1].deltaY = 0
                        /\ last'[1].offsetX = offsetX /\ last'[1].offsetY = offsetY]_vars

\* a release 100 ms after the down and 30 from the start, where the three tests
\* hold with equality, was a swipe
C5_Witness ==
    /\ Names(last) = <<"swipe">>
    /\ last[1].velocityX.den = 100
    /\ last[1].distance2 = Sq(SwipeMinDistance)
    /\ count["panend"] = 0

(* C6: the direction of a dispatched swipe is right or left exactly when   *)
(* |offsetX| > |offsetY| (right iff offsetX > 0), and otherwise down or up *)
(* (down iff offsetY > 0); with |offsetX| = |offsetY| it is down or up.    *)
C6_SwipeDirection ==
    [][\A id \in PointerIds :
          (listening /\ state = "PANNING" /\ Len(activePointers) = 1
               /\ activePointers[1].id = id /\ PointerUp(id)
               /\ Names(last') = <<"swipe">>)
          => LET pointer == activePointers[1]
                 offsetX == pointer.currentX - pointer.startX
                 offsetY == pointer.currentY - pointer.startY
                 direction == last'[1].direction
             IN  /\ direction \in {"right", "left"} <=> Abs(offsetX) > Abs(offsetY)
                 /\ direction = "right" => offsetX > 0
                 /\ direction = "left" => offsetX <= 0
                 /\ direction \in {"down", "up"} <=> Abs(offsetX) <= Abs(offsetY)
                 /\ direction = "down" => offsetY > 0
                 /\ direction = "up" => offsetY <= 0
                 /\ Abs(offsetX) = Abs(offsetY) => direction \in {"down", "up"}]_vars

\* a swipe along the diagonal, tagged down
C6_Witness ==
    /\ Names(last) = <<"swipe">>
    /\ last[1].velocityX.num = last[1].velocityY.num
    /\ last[1].velocityX.num > 0
    /\ last[1].direction = "down"

\* exactly two pointers are tracked, `id` one of them
Pair(id) == listening /\ Len(activePointers) = 2 /\ Has(activePointers, id)

\* the squared distance between the two tracked pointers once `id` has moved to p
PairDist2(id, p) ==
    LET other == activePointers[CHOOSE i \in 1..2 : activePointers[i].id # id]
    IN  Dist2(other.currentX, other.currentY, p[1], p[2])

\* what a two-pointer span does once it pinches and when it ends, common to the
\* claim and its amendment
C7_Rest ==
    /\ \A id \in PointerIds, p \in PinchPoints :
          (Pair(id) /\ state = "PINCHING" /\ PointerMove(id, p))
          => Names(last') = <<"pinchmove">>
    /\ \A id \in PointerIds :
          (Pair(id) /\ state = "PINCHING" /\ PointerUp(id))
          => Names(last') = <<"pinchend">> /\ Len(activePointers') = 1
    /\ \A id \in PointerIds :
          (listening /\ hist.multi /\ Len(activePointers) = 1
               /\ activePointers[1].id = id /\ PointerUp(id))
          => last' = <<>>

(* C7, as claimed: with two pointers tracked, the move that finds them     *)
(* pinch.threshold or farther apart dispatches one pinchstart, a pinchmove *)
(* coming with each later move only; then each move dispatches one         *)
(* pinchmove, the release of one of the two one pinchend, and the release  *)
(* of the other nothing.                                                   *)
C7_AsClaimed ==
    [][/\ \A id \in PointerIds, p \in PinchPoints :
            (Pair(id) /\ state = "POSSIBLE_MULTI_TOUCH"
                 /\ PairDist2(id, p) >= Sq(PinchThreshold) /\ PointerMove(id, p))
            => Names(last') = <<"pinchstart">>
       /\ C7_Rest]_vars

(* C7, amended: with two pointers tracked, the move that finds them        *)
(* pinch.threshold or farther apart dispatches one pinchstart and, after   *)
(* it, one pinchmove; then each move dispatches one pinchmove, the release *)
(* of one of the two one pinchend, and the release of the other nothing.   *)
C7_PinchLifecycle ==
    [][/\ \A id \in PointerIds, p \in PinchPoints :
            (Pair(id) /\ state = "POSSIBLE_MULTI_TOUCH"
                 /\ PairDist2(id, p) >= Sq(PinchThreshold) /\ PointerMove(id, p))
            => Names(last') = <<"pinchstart", "pinchmove">> /\ state' = "PINCHING"
       /\ C7_Rest]_vars

\* a pinch that had moves was ended by the release of one of its two pointers
C7_Witness ==
    /\ Names(last) = <<"pinchend">>
    /\ state = "PINCHING"
    /\ Len(activePointers) = 1
    /\ count["pinchstart"] = 1 /\ count["pinchmove"] = 1

(* C8: a move handled with exactly two pointers tracked that leaves the    *)
(* state PINCHING dispatches exactly one pinchmove and no pinchend; when   *)
(* it is the move that starts the pinch, the pinchmove follows the         *)
(* pinchstart.                                                             *)
C8_PinchMoveOnEveryMove ==
    [][\A id \in PointerIds, p \in PinchPoints :
          (Pair(id) /\ PointerMove(id, p) /\ state' = "PINCHING")
          => /\ Cardinality({i \in 1..Len(last') : last'[i].name = "pinchmove"}) = 1
             /\ \A i \in 1..Len(last') : last'[i].name # "pinchend"
             /\ state = "POSSIBLE_MULTI_TOUCH" => Names(last') = <<"pinchstart", "pinchmove">>
             /\ state = "PINCHING" => Names(last') = <<"pinchmove">>]_vars

\* the move that started a pinch also dispatched a pinchmove, with the same distance
C8_Witness ==
    /\ Names(last) = <<"pinchstart", "pinchmove">>
    /\ last[1].distance2 = last[2].distance2
    /\ last[1].distance2 >= Sq(PinchThreshold)
    /\ Len(activePointers) = 2

(* C9: from the pointer-down that tracks a second pointer until the next   *)
(* span starts, no step dispatches a tap, press, pan or swipe event, but   *)
(* for the one pancancel of that pointer-down when the state was PANNING.  *)
C9_NoSingleContactEventsOnceMulti ==
    [][hist'.multi =>
          \A i \in 1..Len(last') :
              \/ last'[i].name \in PinchNames
              \/ /\ last'[i].name = "pancancel"
                 /\ Len(last') = 1
                 /\ ~hist.multi
                 /\ state = "PANNING"
                 /\ Len(activePointers) = 1 /\ Len(activePointers') = 2]_vars

\* one pointer is left of two, it has moved since, and the step dispatched nothing
C9_Witness ==
    /\ hist.multi
    /\ Len(activePointers) = 1
    /\ state \in {"POSSIBLE_MULTI_TOUCH", "PINCHING"}
    /\ activePointers[1].currentX = 17
    /\ captured = {activePointers[1].id}
    /\ last = <<>>
    /\ count["pancancel"] = 1

(* C10: a span that dispatched a tap dispatched nothing else: no pan, no   *)
(* press, no swipe and no pinch event.                                     *)
C10_TapExcludesTheRest ==
    count["tap"] > 0 => \A n \in EventNames \ {"tap"} : count[n] = 0

\* a span that ended with a tap
C10_Witness ==
    /\ count["tap"] = 1
    /\ state = "IDLE"
    /\ activePointers = <<>>
    /\ Names(last) = <<"tap">>
    /\ last[1].x = 10

----------------------------------------------------------------------------
(* C11: destroy(), called in any state, dispatches nothing and leaves no   *)
(* tracked pointer, no captured pointer, the state IDLE and no pending     *)
(* press timer; no step after it dispatches a pressstart.                  *)
C11_DestroyLeavesNothing ==
    [][/\ Destroy =>
             /\ last' = <<>>
             /\ activePointers' = <<>>
             /\ captured' = {}
             /\ state' = "IDLE"
             /\ timers' = {}
             /\ pressTimeoutId' = Null
       /\ hist.disposed > 0 =>
             \A i \in 1..Len(last') : last'[i].name # "pressstart"]_vars

\* destroy() was called once, during a pan: the span has a panstart and nothing
\* that ends a pan
C11_Witness ==
    /\ hist.disposed = 1
    /\ count["panstart"] = 1
    /\ count["panend"] = 0 /\ count["pancancel"] = 0 /\ count["swipe"] = 0
    /\ state = "IDLE"
    /\ activePointers = <<>>
    /\ last = <<>>

(* C12: once destroy() has been called, a pointer event that the element   *)
(* gets (down, move, up or cancel) changes no field of the recognizer:     *)
(* it tracks and captures no pointer, arms no timer and dispatches         *)
(* nothing.                                                                *)
C12_NoReactionAfterDestroy ==
    [][\A id \in PointerIds :
          (/\ hist.disposed > 0
           /\ \/ \E p \in StartPoints : PointerDown(id, p)
              \/ \E p \in MovePoints : PointerMove(id, p)
              \/ PointerUp(id)
              \/ PointerCancel(id))
          => /\ UNCHANGED <<state, activePointers, captured, pressTimeoutId,
                            timers, listening>>
             /\ last' = <<>>]_vars

\* a pointer event came after destroy(), and the recognizer is as destroy() left it
C12_Witness ==
    /\ hist.disposed > 0
    /\ hist.late
    /\ ~listening
    /\ state = "IDLE"
    /\ activePointers = <<>> /\ captured = {} /\ timers = {}

\* the recognizer after destroy() returned, before it handles anything else
Destroyed(self) == [destroy(self) EXCEPT !.dispatched = <<>>]

(* C13: destroy() on a recognizer that destroy() was called on changes no  *)
(* field and dispatches nothing; from any state, two calls of destroy()    *)
(* leave what one call leaves.                                             *)
C13_DestroyIdempotent ==
    /\ hist.disposed > 0 => destroy(Self) = Self
    /\ destroy(Destroyed(Self)) = Destroyed(Self)

\* destroy() was called twice
C13_Witness ==
    /\ hist.disposed = 2
    /\ ~listening
    /\ destroy(Self) = Self

----------------------------------------------------------------------------
(* C14: after every handler, the captured pointers are the tracked         *)
(* pointers.                                                               *)
C14_CapturedIffTracked == captured = Ids(activePointers)

\* the same while no more than two pointers are tracked
CapturedIffTrackedUpToTwo ==
    Len(activePointers) <= 2 => captured = Ids(activePointers)

(* C15: after every handler, if no pointer is tracked the state is IDLE.   *)
C15_NoPointerMeansIdle == activePointers = <<>> => state = "IDLE"

\* the release of the last pointer ended a pan and left IDLE
C15_Witness ==
    /\ activePointers = <<>>
    /\ state = "IDLE"
    /\ Names(last) = <<"panend">>
    /\ hist.disposed = 0

MultiStates == {"POSSIBLE_MULTI_TOUCH", "PINCHING"}

(* C16, as claimed (and with no third pointer tracked): after every        *)
(* handler, whenever the state is POSSIBLE_MULTI_TOUCH or PINCHING,        *)
(* exactly two pointers are tracked.                                       *)
C16_AsClaimed ==
    (state \in MultiStates /\ Len(activePointers) <= 2) => Len(activePointers) = 2

(* C16, amended: after every handler, whenever the state is                *)
(* POSSIBLE_MULTI_TOUCH or PINCHING at least one pointer is tracked, and   *)
(* exactly two are tracked after the handler that entered the state.       *)
C16_MultiStatesHavePointers ==
    [][state' \in MultiStates =>
          /\ Len(activePointers') >= 1
          /\ state' # state => Len(activePointers') = 2]_vars

\* one pointer is left of a pinch, after the pinchend, with the state PINCHING
C16_Witness ==
    /\ state = "PINCHING"
    /\ Len(activePointers) = 1
    /\ count["pinchend"] = 1
    /\ last = <<>>

(* C17: in every state at most one press timer is pending, and             *)
(* pressTimeoutId is its handle (so that a timer is armed only when none   *)
(* is pending).                                                            *)
C17_OnePressTimer ==
    /\ Cardinality(timers) <= 1
    /\ \A timer \in timers : timer.handle = pressTimeoutId /\ pressTimeoutId # Null

\* the press timer of the pointer that just went down is pending, alone
C17_Witness ==
    /\ Cardinality(timers) = 1
    /\ \E timer \in timers : timer.handle = pressTimeoutId /\ timer.due = now + PressMinDuration
    /\ state = "POSSIBLE_TAP"
    /\ Len(activePointers) = 1 /\ activePointers[1].id = 1
    /\ last = <<>>

----------------------------------------------------------------------------
(* C18: a pointer-down with a new id while two pointers are tracked is     *)
(* ignored: the pointer is not tracked and not captured, the state and     *)
(* the timer stay as they are, and nothing is dispatched.                  *)
C18_ThirdPointerIgnored ==
    [][\A id \in PointerIds, p \in StartPoints :
          (listening /\ Len(activePointers) = 2 /\ PointerDown(id, p))
          => /\ UNCHANGED <<activePointers, captured, state, pressTimeoutId, timers>>
             /\ last' = <<>>]_vars

(* C19: a pointer-down while exactly one pointer is tracked tracks and     *)
(* captures the new pointer, clears the press timer and sets               *)
(* POSSIBLE_MULTI_TOUCH; from PANNING it dispatches exactly one pancancel, *)
(* for the first pointer, with zero deltas and that pointer's current      *)
(* position less its start as offsets; from any other state it dispatches  *)
(* nothing.                                                                *)
C19_SecondPointerDown ==
    [][\A id \in PointerIds, p \in StartPoints :
          (listening /\ Len(activePointers) = 1 /\ PointerDown(id, p))
          => LET first == activePointers[1]
             IN  /\ Ids(activePointers') = {first.id, id} /\ id # first.id
                 /\ activePointers'[1] = first
                 /\ captured' = captured \cup {id}
                 /\ timers' = {} /\ pressTimeoutId' = Null
                 /\ state' = "POSSIBLE_MULTI_TOUCH"
                 /\ IF state = "PANNING"
                    THEN /\ Names(last') = <<"pancancel">>
                         /\ last'[1].deltaX = 0 /\ last'[1].deltaY = 0
                         /\ last'[1].offsetX = first.currentX - first.startX
                         /\ last'[1].offsetY = first.currentY - first.startY
                         /\ last'[1].x = first.currentX /\ last'[1].y = first.currentY
                    ELSE last' = <<>>]_vars

\* the second pointer went down on a pan that was 7 to the right of its start
C19_Witness ==
    /\ Names(last) = <<"pancancel">>
    /\ last[1].offsetX = 7 /\ last[1].deltaX = 0
    /\ state = "POSSIBLE_MULTI_TOUCH"
    /\ Len(activePointers) = 2
    /\ captured = Ids(activePointers)
    /\ timers = {}

(* C20: a pointer-cancel of a tracked pointer releases and untracks it,    *)
(* clears the press timer, dispatches exactly one presscancel from         *)
(* POSSIBLE_TAP or PRESSING, exactly one pancancel (zero deltas, final     *)
(* offsets) from PANNING and nothing from any other state, and leaves      *)
(* IDLE with no tracked pointer; it dispatches no tap, pressend, panend    *)
(* or swipe.                                                               *)
C20_PointerCancel ==
    [][\A id \in PointerIds :
          (listening /\ Has(activePointers, id) /\ PointerCancel(id))
          => LET pointer == Get(activePointers, id)
             IN  /\ id \notin captured'
                 /\ activePointers' = <<>>
                 /\ state' = "IDLE"
                 /\ timers' = {} /\ pressTimeoutId' = Null
                 /\ CASE state \in {"POSSIBLE_TAP", "PRESSING"} ->
                           Names(last') = <<"presscancel">>
                      [] state = "PANNING" ->
                           /\ Names(last') = <<"pancancel">>
                           /\ last'[1].deltaX = 0 /\ last'[1].deltaY = 0
                           /\ last'[1].offsetX = pointer.currentX - pointer.startX
                           /\ last'[1].offsetY = pointer.currentY - pointer.startY
                      [] OTHER -> last' = <<>>]_vars

\* a press was canceled by a pointer-cancel
C20_Witness ==
    /\ Names(last) = <<"presscancel">>
    /\ count["pressstart"] = 1
    /\ hist.drift = FALSE
    /\ state = "IDLE"
    /\ activePointers = <<>>
    /\ captured = {}

----------------------------------------------------------------------------
(* C21: the release of the last pointer in PANNING at the very time of its *)
(* down (a duration of zero) is no swipe: it dispatches a panend, and no   *)
(* event with a velocity that is a quotient by zero.                       *)
C21_ZeroDurationIsNoSwipe ==
    [][\A id \in PointerIds :
          (/\ listening /\ state = "PANNING" /\ Len(activePointers) = 1
           /\ activePointers[1].id = id
           /\ now = activePointers[1].downTime
           /\ PointerUp(id))
          => /\ Names(last') = <<"panend">>
             /\ \A i \in 1..Len(last') :
                   "velocityX" \in DOMAIN last'[i] => last'[i].velocityX.den # 0]_vars

(* C22: a move, an up or a cancel of a pointer that is not tracked changes *)
(* nothing, in every state: not the state, not the tracked pointers or     *)
(* their positions, not the captures, not the timer; and it dispatches     *)
(* nothing.                                                                *)
C22_UntrackedIgnored ==
    [][\A id \in PointerIds :
          (/\ listening /\ ~Has(activePointers, id)
           /\ \/ \E p \in MovePoints : PointerMove(id, p)
              \/ PointerUp(id)
              \/ PointerCancel(id))
          => /\ UNCHANGED <<state, activePointers, captured, pressTimeoutId, timers>>
             /\ last' = <<>>]_vars

\* an event came for a pointer that the reset of a press timer out of bounds had
\* untracked
C22_Witness ==
    /\ hist.stray
    /\ listening
    /\ hist.fired /\ hist.pressed = 0
    /\ state = "IDLE"
    /\ activePointers = <<>> /\ captured = {} /\ timers = {}
    /\ last = <<>>

----------------------------------------------------------------------------
\* how many of the events are panmove events
PanMoves(evs) == Cardinality({i \in 1..Len(evs) : evs[i].name = "panmove"})

\* a drag goes on and ends: a move while PANNING dispatches a panmove, and a
\* release too near for a swipe a panend
C23_Rest ==
    /\ \A id \in PointerIds, p \in MovePoints :
          (Sole(id) /\ state = "PANNING" /\ PointerMove(id, p))
          => Names(last') = <<"panmove">>
    /\ \A id \in PointerIds :
          (Sole(id) /\ state = "PANNING" /\ SoleDist2 < Sq(SwipeMinDistance)
               /\ PointerUp(id))
          => Names(last') = <<"panend">>

----------------------------------------------------------------------------
(* C25: every panstart and panmove carries as deltas the pointer's         *)
(* position in this move less its position at the sample before (the down  *)
(* position for the first move), and as offsets its position less its      *)
(* start.                                                                  *)
C25_DeltasAndOffsets ==
    [][\A id \in PointerIds, p \in MovePoints :
          (listening /\ Has(activePointers, id) /\ PointerMove(id, p))
          => LET before == Get(activePointers, id)
             IN  \A i \in 1..Len(last') :
                    last'[i].name \in {"panstart", "panmove"}
                    => /\ last'[i].deltaX = p[1] - before.currentX
                       /\ last'[i].deltaY = p[2] - before.currentY
                       /\ last'[i].offsetX = p[1] - before.startX
                       /\ last'[i].offsetY = p[2] - before.startY]_vars

\* what the events carry: the offsets from the start, and deltas of zero
OffsetsFromStart ==
    [][\A id \in PointerIds, p \in MovePoints :
          (listening /\ Has(activePointers, id) /\ PointerMove(id, p))
          => LET before == Get(activePointers, id)
             IN  \A i \in 1..Len(last') :
                    last'[i].name \in {"panstart", "panmove"}
                    => /\ last'[i].offsetX = p[1] - before.startX
                       /\ last'[i].offsetY = p[2] - before.startY
                       /\ last'[i].deltaX = 0 /\ last'[i].deltaY = 0]_vars

----------------------------------------------------------------------------
(* C26: a pressstart carries the time from the down to the run of the      *)
(* timer's callback, which is press.minDuration when the callback runs on  *)
(* schedule and never less; a pressend carries the time from the down to   *)
(* the up, which is no less than what the span's pressstart carried; a     *)
(* presscancel after a pressstart carries no less than press.minDuration.  *)
C26_PressDurations ==
    [][\A i \in 1..Len(last') :
          LET duration == last'[i].duration
              sinceDown == now - activePointers[1].downTime
          IN  /\ last'[i].name = "pressstart"
                   => /\ duration = sinceDown
                      /\ duration >= PressMinDuration
                      /\ (\E timer \in timers : timer.due = now)
                            => duration = PressMinDuration
              /\ last'[i].name = "pressend"
                   => /\ duration = sinceDown
                      /\ hist.pressed >= PressMinDuration
                      /\ duration >= hist.pressed
              /\ (last'[i].name = "presscancel" /\ hist.pressed > 0)
                   => /\ duration = sinceDown
                      /\ duration >= PressMinDuration]_vars

\* down, 500 ms, pressstart with 500, 200 ms, up: pressend with 700
C26_Witness ==
    /\ Names(last) = <<"pressend">>
    /\ last[1].duration = 700
    /\ hist.pressed = 500
    /\ last[1].x = 10 /\ last[1].y = 10
    /\ count["presscancel"] = 0

----------------------------------------------------------------------------
(* C27: a sole pointer released sooner than press.minDuration after its    *)
(* down has had no pressstart, pressend or presscancel in its span,        *)
(* whatever its moves.                                                     *)
C27_QuickReleaseNeverPresses ==
    [][\A id \in PointerIds :
          (Sole(id) /\ SoleAge < PressMinDuration /\ PointerUp(id))
          => \A n \in PressNames : count'[n] = 0]_vars

\* a pointer that had moved was released 250 ms after its down, with a swipe: its
\* span has no press event
C27_Witness ==
    /\ Names(last) = <<"swipe">>
    /\ last[1].velocityX.den = 250
    /\ \A n \in PressNames : count[n] = 0
    /\ ~hist.fired
    /\ state = "IDLE"

----------------------------------------------------------------------------
(* C28: no tap is dispatched for a pointer released more than              *)
(* tap.maxDuration after its down; and after a pressstart in the span, the *)
(* release dispatches no tap.                                              *)
C28_NoLateTap ==
    [][/\ \A id \in PointerIds :
            (/\ listening /\ Has(activePointers, id)
             /\ \/ now - Get(activePointers, id).downTime > TapMaxDuration
                \/ count["pressstart"] > 0
             /\ PointerUp(id))
            => \A i \in 1..Len(last') : last'[i].name # "tap"
       /\ \A i \in 1..Len(last') :
            last'[i].name = "tap"
            => /\ Len(activePointers) = 1
               /\ now - activePointers[1].downTime <= TapMaxDuration
               /\ count["pressstart"] = 0]_vars

\* a press whose timer ran 50 ms late ended with a pressend and no tap
C28_Witness ==
    /\ Names(last) = <<"pressend">>
    /\ hist.pressed = 550
    /\ count["tap"] = 0
    /\ count["pressstart"] = 1
    /\ state = "IDLE"

----------------------------------------------------------------------------
(* C29: whatever the events before it, a run of the press timer's callback *)
(* that finds a state other than POSSIBLE_TAP dispatches nothing and       *)
(* leaves the state, the tracked pointers and the captures as they are;    *)
(* a pressstart is dispatched only by a run of the callback that finds     *)
(* POSSIBLE_TAP.                                                           *)
C29_CallbackRechecksState ==
    [][/\ (state # "POSSIBLE_TAP" /\ PressTimeout)
            => /\ last' = <<>>
               /\ UNCHANGED <<state, activePointers, captured>>
       /\ (\E i \in 1..Len(last') : last'[i].name = "pressstart")
            => /\ state = "POSSIBLE_TAP"
               /\ Names(last') = <<"pressstart">>
               /\ PressTimeout]_vars

\* the callback ran on a pan that had had no press, and left it as it was
C29_Witness ==
    /\ state = "PANNING"
    /\ hist.fired /\ hist.pressed = 0
    /\ Len(activePointers) = 1
    /\ captured = {1}
    /\ timers = {} /\ pressTimeoutId = Null
    /\ last = <<>>
    /\ count["pressstart"] = 0

----------------------------------------------------------------------------
\* the press timer's callback has reset the recognizer under a pointer that is
\* still down, and no pointer has gone down since
C30_Dropped ==
    /\ listening
    /\ ~hist.multi
    /\ hist.fired /\ hist.pressed = 0
    /\ activePointers = <<>>

(* C30: when the press timer's callback finds POSSIBLE_TAP and the only     *)
(* tracked pointer farther than press.maxDistance from its start, it        *)
(* dispatches nothing and resets to IDLE with no pointer tracked and none   *)
(* captured; every later move, up or cancel of that pointer is ignored, so  *)
(* the span has no event at all.                                            *)
C30_OutOfBoundsTimeoutEndsSpan ==
    [][/\ (/\ state = "POSSIBLE_TAP"
           /\ Len(activePointers) = 1
           /\ SoleDist2 > Sq(PressMaxDistance)
           /\ PressTimeout)
            => /\ last' = <<>>
               /\ state' = "IDLE"
               /\ activePointers' = <<>>
               /\ captured' = {}
               /\ count' = ZeroCount
               /\ C30_Dropped'
       /\ (/\ C30_Dropped
           /\ \E id \in PointerIds :
                \/ PointerUp(id)
                \/ PointerCancel(id)
                \/ \E p \in MovePoints : PointerMove(id, p))
            => /\ last' = <<>>
               /\ count' = ZeroCount
               /\ state' = "IDLE"
               /\ UNCHANGED <<state, activePointers, captured, timers>>]_vars

\* the timer found the pointer 12 px from its start, under a pan threshold of
\* 15, and an event of that pointer came afterwards
C30_Witness ==
    /\ C30_Dropped
    /\ hist.beyond /\ ~hist.panReach
    /\ hist.stray
    /\ PanThresholdOf(config) = 15
    /\ state = "IDLE"
    /\ captured = {}
    /\ count = ZeroCount
    /\ last = <<>>

----------------------------------------------------------------------------
\* one pointer is left of two, `id`
Remaining(id) ==
    /\ listening
    /\ hist.multi
    /\ Len(activePointers) = 1
    /\ activePointers[1].id = id

\* what the pointer-up that leaves one pointer tracked does, common to the claim
\* and its amendment
C31_Rest ==
    \A id \in PointerIds :
        (Pair(id) /\ PointerUp(id))
        => /\ state = "PINCHING" => Names(last') = <<"pinchend">>
           /\ state = "POSSIBLE_MULTI_TOUCH" => last' = <<>>
           /\ state \in MultiStates
           /\ state' = state
           /\ activePointers' = MapDelete(activePointers, id)
           /\ Len(activePointers') = 1
           /\ captured' = {activePointers'[1].id}
           /\ UNCHANGED <<timers, pressTimeoutId>>

(* C31, as claimed: the pointer-up that leaves one pointer tracked         *)
(* dispatches one pinchend in PINCHING and nothing in                      *)
(* POSSIBLE_MULTI_TOUCH, keeps the other pointer tracked and captured and  *)
(* the state as it is; from then until the recognizer is IDLE again, no    *)
(* move and no release of that pointer dispatches anything (stated for     *)
(* the spans that had a pinchend).                                         *)
C31_AsClaimed ==
    [][/\ C31_Rest
       /\ \A p \in MovePoints \cup PinchPoints :
            (/\ listening /\ count["pinchend"] > 0 /\ Len(activePointers) >= 1
             /\ \/ PointerMove(activePointers[1].id, p)
                \/ PointerUp(activePointers[1].id))
            => last' = <<>>]_vars

(* C31, amended: the pointer-up that leaves one pointer tracked dispatches *)
(* one pinchend in PINCHING and nothing in POSSIBLE_MULTI_TOUCH, keeps the *)
(* other pointer tracked and captured and the state as it is; while that   *)
(* pointer remains the only one tracked, its moves dispatch nothing and    *)
(* leave the state, and its release dispatches nothing and resets to IDLE. *)
C31_OneRemains ==
    [][/\ C31_Rest
       /\ \A id \in PointerIds, p \in MovePoints :
            (Remaining(id) /\ PointerMove(id, p))
            => /\ last' = <<>>
               /\ state' = state
               /\ Ids(activePointers') = {id} /\ captured' = {id}
       /\ \A id \in PointerIds :
            (Remaining(id) /\ PointerUp(id))
            => /\ last' = <<>>
               /\ state' = "IDLE"
               /\ activePointers' = <<>> /\ captured' = {}]_vars

\* the pointer left of a pinch has moved 30 px since, and nothing came of it
C31_Witness ==
    /\ hist.multi
    /\ state = "PINCHING"
    /\ Len(activePointers) = 1
    /\ activePointers[1].currentX = 40
    /\ captured = {activePointers[1].id}
    /\ count["pinchend"] = 1
    /\ last = <<>>

----------------------------------------------------------------------------
(* C32: after every handler, a press timer is pending if and only if the   *)
(* state is POSSIBLE_TAP: each step out of POSSIBLE_TAP clears the timer   *)
(* or is the run of its callback, and no timer is pending in any other     *)
(* state.                                                                  *)
C32_TimerIffPossibleTap == (timers # {}) <=> (state = "POSSIBLE_TAP")

\* the pointer-down of a second pointer, 250 ms after the first, took the
\* recognizer out of POSSIBLE_TAP and cleared the timer
C32_Witness ==
    /\ state = "POSSIBLE_MULTI_TOUCH"
    /\ Len(activePointers) = 2
    /\ activePointers[1].downTime = 0 /\ activePointers[2].downTime = 250
    /\ timers = {} /\ pressTimeoutId = Null
    /\ count = ZeroCount
    /\ last = <<>>

----------------------------------------------------------------------------
\* the step brings the recognizer back to IDLE, and is no destroy()
BackToIdle == state # "IDLE" /\ state' = "IDLE" /\ listening'

(* C33: a span that had a pressstart has had exactly one pressend or       *)
(* presscancel when the recognizer is back in IDLE (destroy() apart); in   *)
(* particular the pointer-down of a second pointer in state PRESSING       *)
(* closes the press.                                                       *)
C33_PressAlwaysCloses ==
    [][/\ (BackToIdle /\ count["pressstart"] > 0)
            => count'["pressend"] + count'["presscancel"] = 1
       /\ (state = "PRESSING" /\ Len(activePointers') = 2)
            => \E i \in 1..Len(last') : last'[i].name \in {"pressend", "presscancel"}]_vars

\* a span in which no second pointer went down closes its press
PressClosesUnlessMulti ==
    [][(BackToIdle /\ count["pressstart"] > 0 /\ ~hist.multi)
          => count'["pressend"] + count'["presscancel"] = 1]_vars

----------------------------------------------------------------------------
\* the events that close a pan
PanClosers == {"panend", "pancancel", "swipe"}

\* how many of the events close a pan
PanCloses(evs) == Cardinality({i \in 1..Len(evs) : evs[i].name \in PanClosers})

(* C34: panmove, panend, pancancel and swipe are dispatched only while a   *)
(* panstart of the span is open, that is in state PANNING; a panstart      *)
(* opens the span's only pan; the step that leaves PANNING (destroy()      *)
(* apart) dispatches exactly one of panend, pancancel and swipe, and no    *)
(* step that stays in PANNING dispatches one of them or a panstart.        *)
C34_PanBracketed ==
    [][/\ \A i \in 1..Len(last') :
            /\ last'[i].name \in PanClosers \cup {"panmove"}
                 => /\ state = "PANNING"
                    /\ count["panstart"] = 1
                    /\ \A n \in PanClosers : count[n] = 0
            /\ last'[i].name = "panstart"
                 => /\ state # "PANNING" /\ state' = "PANNING"
                    /\ \A n \in PanNames \cup {"swipe"} : count[n] = 0
                    /\ PanCloses(last') = 0
       /\ (state = "PANNING" /\ state' # "PANNING" /\ listening')
            => PanCloses(last') = 1
       /\ (state = "PANNING" /\ state' = "PANNING")
            => /\ PanCloses(last') = 0
               /\ \A i \in 1..Len(last') : last'[i].name # "panstart"
       /\ state' = "PANNING"
            => /\ count'["panstart"] = 1
               /\ \A n \in PanClosers : count'[n] = 0]_vars

\* a pan that had a panmove was closed by the pancancel of a second pointer-down
C34_Witness ==
    /\ Names(last) = <<"pancancel">>
    /\ state = "POSSIBLE_MULTI_TOUCH"
    /\ count["panstart"] = 1 /\ count["panmove"] = 1
    /\ count["pancancel"] = 1 /\ count["panend"] = 0 /\ count["swipe"] = 0

----------------------------------------------------------------------------
\* a pinchstart has had no pinchend: the state is PINCHING and both pointers of
\* the pinch are tracked
PinchOpen == state = "PINCHING" /\ Len(activePointers) >= 2

(* C35: pinchmove and pinchend are dispatched only for an open pinch (a    *)
(* pinchstart with no pinchend after it); the pinchend closes it, so each  *)
(* pinchstart has one pinchend at most; a pinch is opened by a pinchstart  *)
(* only, and no pinchstart is dispatched while a pinch is open.            *)
C35_PinchBracketed ==
    [][/\ \A i \in 1..Len(last') :
            /\ last'[i].name = "pinchstart"
                 => ~PinchOpen /\ PinchOpen' /\ i = 1
            /\ last'[i].name = "pinchmove"
                 => /\ PinchOpen'
                    /\ PinchOpen \/ (i = 2 /\ last'[1].name = "pinchstart")
            /\ last'[i].name = "pinchend"
                 => PinchOpen /\ ~PinchOpen' /\ Len(last') = 1
       /\ (~PinchOpen /\ PinchOpen')
            => \E i \in 1..Len(last') : last'[i].name = "pinchstart"]_vars

\* the second pinch of a span is open and has a pinchmove of its own
C35_Witness ==
    /\ Names(last) = <<"pinchmove">>
    /\ state = "PINCHING"
    /\ Len(activePointers) = 2
    /\ count["pinchend"] = 1

----------------------------------------------------------------------------
(* C36: with two pointers tracked (state POSSIBLE_MULTI_TOUCH or           *)
(* PINCHING), the pointer-cancel of either untracks and releases both,     *)
(* resets to IDLE and dispatches nothing: no pinchend closes an open       *)
(* pinch.                                                                  *)
C36_CancelOfTwo ==
    [][\A id \in PointerIds :
          (Pair(id) /\ PointerCancel(id))
          => /\ state \in MultiStates
             /\ last' = <<>>
             /\ state' = "IDLE"
             /\ activePointers' = <<>>
             /\ captured' = {}
             /\ timers' = {} /\ pressTimeoutId' = Null
             /\ count'["pinchend"] = count["pinchend"]]_vars

\* a pinch of two pointers that was open is over without a pinchend
C36_Witness ==
    /\ listening
    /\ hist.multi /\ ~hist.crowd /\ ~hist.stray
    /\ state = "IDLE"
    /\ activePointers = <<>> /\ captured = {}
    /\ count["pinchstart"] = 1 /\ count["pinchend"] = 0
    /\ last = <<>>

----------------------------------------------------------------------------
(* C37: once a third pointer has gone down while two were tracked, the     *)
(* tracked pointers are three; the pointer-up of any of them leaves two,   *)
(* so it dispatches nothing (no pinchend, even in PINCHING) and resets to  *)
(* IDLE with no pointer tracked.                                           *)
C37_UpAmongThree ==
    [][/\ hist'.crowd /\ listening' /\ activePointers' # <<>>
            => Len(activePointers') = 3 /\ state' \in MultiStates
       /\ \A id \in PointerIds :
            (listening /\ Len(activePointers) = 3 /\ PointerUp(id))
            => /\ hist.crowd
               /\ last' = <<>>
               /\ state' = "IDLE"
               /\ activePointers' = <<>>
               /\ captured' = {}]_vars

\* a third pointer went down on an open pinch, which is over without a pinchend
C37_Witness ==
    /\ listening
    /\ hist.crowd /\ ~hist.stray
    /\ state = "IDLE"
    /\ activePointers = <<>> /\ captured = {}
    /\ count["pinchstart"] = 1 /\ count["pinchend"] = 0
    /\ last = <<>>

----------------------------------------------------------------------------
\* the configuration has pan.threshold <= press.maxDistance, as the defaults do
PanBeforePressBound == PanThresholdOf(config) <= PressMaxDistance

(* C38: with pan.threshold <= press.maxDistance, the pointer of a          *)
(* recognizer in POSSIBLE_TAP is closer than pan.threshold to its start,   *)
(* so every run of the press timer's callback that finds POSSIBLE_TAP      *)
(* dispatches pressstart and sets PRESSING, and never resets to IDLE.      *)
C38_TimeoutAlwaysPresses ==
    [][/\ (PanBeforePressBound /\ state' = "POSSIBLE_TAP")
            => /\ Len(activePointers') = 1
               /\ Dist2(activePointers'[1].currentX, activePointers'[1].currentY,
                        activePointers'[1].startX, activePointers'[1].startY)
                    < Sq(PanThresholdOf(config))
       /\ (PanBeforePressBound /\ state = "POSSIBLE_TAP" /\ PressTimeout)
            => /\ Names(last') = <<"pressstart">>
               /\ state' = "PRESSING"
               /\ activePointers' = activePointers]_vars

\* the timer found the pointer 3 px from its start, under the default threshold
C38_Witness ==
    /\ PanBeforePressBound
    /\ Names(last) = <<"pressstart">>
    /\ state = "PRESSING"
    /\ activePointers[1].currentX = 13 /\ activePointers[1].startX = 10
    /\ hist.fired /\ ~hist.beyond

----------------------------------------------------------------------------
(* C39: when a pinchend has left one pointer tracked, the pointer-down of  *)
(* another pointer is tracked and captured and sets                        *)
(* POSSIBLE_MULTI_TOUCH, and the move that then finds the two at           *)
(* pinch.threshold or farther apart dispatches a pinchstart again: the     *)
(* pointer that stayed down takes part in a second pinch.                  *)
C39_PinchAgain ==
    [][/\ \A id \in PointerIds, p \in StartPoints :
            (/\ listening /\ Len(activePointers) = 1 /\ count["pinchend"] > 0
             /\ PointerDown(id, p))
            => /\ state \in MultiStates
               /\ state' = "POSSIBLE_MULTI_TOUCH"
               /\ activePointers' = Append(activePointers, ActivePointer(id, p[1], p[2], now))
               /\ captured' = Ids(activePointers')
               /\ last' = <<>>
       /\ \A id \in PointerIds, p \in PinchPoints :
            (/\ Pair(id) /\ count["pinchend"] > 0 /\ state = "POSSIBLE_MULTI_TOUCH"
             /\ PairDist2(id, p) >= Sq(PinchThreshold)
             /\ PointerMove(id, p))
            => /\ Names(last') = <<"pinchstart", "pinchmove">>
               /\ state' = "PINCHING"]_vars

\* pointer 1 has stayed down through a pinch that ended, and is in the pinchstart
\* of a second one
C39_Witness ==
    /\ Names(last) = <<"pinchstart", "pinchmove">>
    /\ count["pinchend"] = 1
    /\ state = "PINCHING"
    /\ Ids(activePointers) = {1, 2}
    /\ activePointers[1].id = 1

----------------------------------------------------------------------------
\* the recognizer as the switch of onPointerUp leaves it when the only tracked
\* pointer is released, before resetGestureState
AfterSwitch ==
    LastUp([Self EXCEPT !.captured = {}, !.activePointers = <<>>], activePointers[1], now)

(* C40: no handler returns with the state SWIPING or CANCELED; the state   *)
(* is SWIPING only inside the pointer-up that dispatches a swipe, between  *)
(* the switch and the reset to IDLE that follows it.                       *)
C40_NoSwipingOrCanceled ==
    [][/\ state' \notin {"SWIPING", "CANCELED"}
       /\ (\E i \in 1..Len(last') : last'[i].name = "swipe")
            => /\ state = "PANNING" /\ Len(activePointers) = 1
               /\ PointerUp(activePointers[1].id)
               /\ AfterSwitch.state = "SWIPING"
               /\ state' = "IDLE"
       /\ \A id \in PointerIds :
            (listening /\ Len(activePointers) = 1 /\ activePointers[1].id = id
                 /\ PointerUp(id)
                 /\ \A i \in 1..Len(last') : last'[i].name # "swipe")
            => AfterSwitch.state = state]_vars

\* the pointer-up that dispatched a swipe to the left has returned
C40_Witness ==
    /\ Names(last) = <<"swipe">>
    /\ last[1].direction = "left"
    /\ state = "IDLE"
    /\ activePointers = <<>>

====
